---- MODULE Spec2Model ----
(***************************************************************************)
(* Model of sleap/gui/formbuilder.py (the yaml form engine) and of         *)
(* sleap/gui/overlays/tracks.py (the track trail overlays).                *)
(*                                                                         *)
(* Python values are tagged records, numbers are kept as a whole part n    *)
(* and a half flag h (h = 1 stands for n + 0.5), so that an integer        *)
(* spinner can be told from a floating point one.  Qt indexes are the      *)
(* 0-based indexes of Qt, sequences are the 1-based sequences of TLA+.     *)
(***************************************************************************)
EXTENDS Integers, Sequences, FiniteSets, TLC

VARIABLES
    which_form,           \* YamlFormWidget.which_form: the form of the yaml file that was built
    fields,               \* FormBuilderLayout.fields of every layout: path -> (name -> widget)
    field_options_lists,  \* FormBuilderLayout.field_options_lists of every layout: path -> dict
    shared_options,       \* TRUE when all layouts hold the same field_options_lists object
    is_double,            \* outcome of `type is "double"` in OptionalSpinWidget.__init__
    strict_int,           \* TRUE when the binding rejects a float given to QSpinBox.setValue
    sig,                  \* emissions of the top-level valueChanged signal by the last operation
    err,                  \* exception raised by the last operation ("" when none)
    last,                 \* the last operation and its arguments
    labels,               \* the Labels dataset of the overlays: nodes, labeled frames, tracks
    trail_length,         \* TrackTrailOverlay.trail_length
    show,                 \* TrackTrailOverlay.show
    drawn,                \* the items the last add_to_scene added to player.scene
    call,                 \* the last call on an overlay, with its arguments and result
    text_box              \* TrackListOverlay.text_box

formVars == <<which_form, fields, field_options_lists, shared_options, is_double,
              strict_int, sig, err, last>>

overlayVars == <<labels, trail_length, show, drawn, call, text_box>>

vars == <<formVars, overlayVars>>

-----------------------------------------------------------------------------
(* Python values *)

PyNone == [t |-> "none", n |-> 0, h |-> 0, s |-> "", b |-> FALSE]
PyBool(b) == [t |-> "bool", n |-> 0, h |-> 0, s |-> "", b |-> b]
PyInt(n) == [t |-> "int", n |-> n, h |-> 0, s |-> "", b |-> FALSE]
PyFloat(n, h) == [t |-> "float", n |-> n, h |-> h, s |-> "", b |-> FALSE]
PyStr(s) == [t |-> "str", n |-> 0, h |-> 0, s |-> s, b |-> FALSE]

IsNum(v) == v.t \in {"int", "float"}

\* Python ==: an int and a float are equal when they are the same number
PyEq(a, b) ==
    IF IsNum(a) /\ IsNum(b) THEN a.n = b.n /\ a.h = b.h ELSE a = b

\* str(v)
PyStrOf(v) ==
    CASE v.t = "str" -> v.s
      [] v.t = "none" -> "None"
      [] v.t = "bool" -> (IF v.b THEN "True" ELSE "False")
      [] v.t = "int" -> ToString(v.n)
      [] v.t = "float" -> ToString(v.n) \o (IF v.h = 1 THEN ".5" ELSE ".0")

\* hasattr(v, "lower") followed by v.lower(); the strings of the model
\* that have an upper case letter are listed
PyLower(s) ==
    CASE s = "None" -> "none"
      [] s = "Auto" -> "auto"
      [] OTHER -> s

EmptyDict == [k \in {} |-> <<>>]

DictSet(d, k, v) == [x \in DOMAIN d \cup {k} |-> IF x = k THEN v ELSE d[x]]

-----------------------------------------------------------------------------
(* The yaml file: form name -> list of field descriptors *)

Item(name, type, default) ==
    [name |-> name, type |-> type, label |-> name, default |-> default,
     has_default |-> TRUE, options |-> <<>>, has_options |-> FALSE,
     type_options |-> "", range |-> <<>>, pages |-> EmptyDict]

ListItem(name, options, type_options) ==
    [name |-> name, type |-> "list", label |-> name, default |-> PyNone,
     has_default |-> FALSE, options |-> options, has_options |-> TRUE,
     type_options |-> type_options, range |-> <<>>, pages |-> EmptyDict]

StackItem(name, options, default, pages) ==
    [name |-> name, type |-> "stacked", label |-> name, default |-> default,
     has_default |-> TRUE, options |-> options, has_options |-> TRUE,
     type_options |-> "", range |-> <<>>, pages |-> pages]

ScalarsForm ==
    << Item("flag", "bool", PyBool(FALSE)),
       [Item("count", "int", PyInt(1)) EXCEPT !.range = <<0, 2>>],
       Item("rate", "double", PyFloat(0, 1)),
       Item("title", "string", PyNone),
       Item("path", "file_open", PyNone),
       Item("go", "button", PyStr("main action")) >>

OptionalsForm ==
    << Item("oi", "optional_int", PyNone),
       Item("od", "optional_double", PyNone),
       Item("ai", "auto_int", PyStr("auto")) >>

ListsForm ==
    << [ListItem("mode", <<"a", "b">>, "") EXCEPT !.default = PyStr("b"), !.has_default = TRUE],
       ListItem("part", <<"a", "---", "b">>, ""),
       ListItem("node", <<"x", "y">>, "optional_index") >>

InnerPages ==
    [q1 |-> << ListItem("node", <<"x", "y">>, "") >>,
     q2 |-> << >>]

MethodPages ==
    [p1 |-> << ListItem("node", <<"x", "y">>, "optional_index"),
               Item("k", "bool", PyBool(FALSE)) >>,
     p2 |-> << ListItem("node", <<"x", "y">>, ""),
               StackItem("inner", <<"q1", "q2">>, PyStr("q2"), InnerPages) >>]

StackForm ==
    << ListItem("node", <<"x", "y">>, "optional_index"),
       Item("go", "button", PyStr("main action")),
       StackItem("method", <<"p1", "p2">>, PyStr("p1"), MethodPages) >>

Yaml ==
    [scalars |-> ScalarsForm, optionals |-> OptionalsForm,
     lists |-> ListsForm, stack |-> StackForm]

FormNames == DOMAIN Yaml

\* index of the first element of seq equal to x, 0 when there is none
IndexOf(seq, x) ==
    IF \E i \in 1..Len(seq) : seq[i] = x
    THEN CHOOSE i \in 1..Len(seq) : seq[i] = x /\ \A j \in 1..(i - 1) : seq[j] # x
    ELSE 0

ItemNames(items) == [i \in 1..Len(items) |-> items[i].name]

ItemNamed(items, name) == items[IndexOf(ItemNames(items), name)]

\* A layout is named by its path from the top-level layout: <<>> is the
\* top-level layout, path \o <<stack name, option>> the layout of one page.
\* items_to_create of the layout at a path: stack_data[page] of its stack
RECURSIVE PageItems(_, _)
PageItems(form, path) ==
    IF path = <<>> THEN Yaml[form]
    ELSE LET parent == PageItems(form, SubSeq(path, 1, Len(path) - 2))
             stack_data == ItemNamed(parent, path[Len(path) - 1])
         IN stack_data.pages[path[Len(path)]]

RECURSIVE LayoutsUnder(_, _)
LayoutsUnder(form, path) ==
    LET items == PageItems(form, path)
        stacks == {i \in 1..Len(items) : items[i].type = "stacked"}
    IN {path} \cup
       UNION {UNION {LayoutsUnder(form, path \o <<items[i].name, items[i].options[j]>>) :
                        j \in 1..Len(items[i].options)} : i \in stacks}

LayoutsTable == [form \in FormNames |-> LayoutsUnder(form, <<>>)]

Layouts(form) == LayoutsTable[form]

ItemsTable == [form \in FormNames |-> [p \in Layouts(form) |-> PageItems(form, p)]]

ItemsAt(form, path) == ItemsTable[form][path]

-----------------------------------------------------------------------------
(* Widgets.  One record shape serves every widget class; a class uses the  *)
(* fields it has: checked (QCheckBox, and the check box of an              *)
(* OptionalSpinWidget), n/h/lo/hi/dbl (spin boxes), items/idx (combo       *)
(* boxes, and the combo box of a StackBuilderWidget), text (QLineEdit),    *)
(* shown (the stacked widget of a StackBuilderWidget).                     *)

QSpinMin == 0
QSpinMax == 99

SepItem == "<separator>"

Widget(cls) ==
    [cls |-> cls, name |-> "", dtype |-> "", checked |-> FALSE,
     n |-> 0, h |-> 0, lo |-> QSpinMin, hi |-> QSpinMax, dbl |-> FALSE,
     items |-> <<>>, idx |-> -1, options_list |-> <<>>, has_options_list |-> FALSE,
     result_as_idx |-> FALSE, add_blank_option |-> FALSE,
     text |-> "", none_string |-> "", option_list |-> <<>>, shown |-> -1]

\* result of a call on a widget: the widget after the call, the number of
\* times the widget's change signal reached its handler with an emission,
\* and the exception the call raised
Res(w, e, x) == [w |-> w, emits |-> e, err |-> x]

\* QAbstractButton.setChecked: stateChanged fires when the state changes
setChecked(w, val) ==
    IF val.t # "bool" THEN Res(w, 0, "TypeError")
    ELSE Res([w EXCEPT !.checked = val.b], IF w.checked # val.b THEN 1 ELSE 0, "")

\* QSpinBox.setValue / QDoubleSpinBox.setValue: the value is clamped to the
\* range and valueChanged fires when the value changes.  An integer spinner
\* given a float either truncates it or, when the binding is strict, raises.
\* (The numbers of the model are not negative; the maximum 99.99 of a
\* QDoubleSpinBox is kept as 99.5, the last point of the half grid.)
SpinSetValue(w, val, strict) ==
    IF ~IsNum(val) THEN Res(w, 0, "TypeError")
    ELSE IF ~w.dbl /\ val.t = "float" /\ strict THEN Res(w, 0, "TypeError")
    ELSE LET h0 == IF w.dbl THEN val.h ELSE 0
             n1 == IF val.n < w.lo THEN w.lo ELSE IF val.n > w.hi THEN w.hi ELSE val.n
             h1 == IF val.n < w.lo THEN 0
                   ELSE IF val.n > w.hi THEN (IF w.dbl THEN 1 ELSE 0)
                   ELSE h0
         IN Res([w EXCEPT !.n = n1, !.h = h1],
                IF w.n # n1 \/ w.h # h1 THEN 1 ELSE 0, "")

\* QSpinBox.setRange: sets the bounds and clamps the value
SpinSetRange(w, lo, hi) ==
    [w EXCEPT !.lo = lo, !.hi = hi,
              !.n = IF w.n < lo THEN lo ELSE IF w.n > hi THEN hi ELSE w.n]

SpinValue(w) == IF w.dbl THEN PyFloat(w.n, w.h) ELSE PyInt(w.n)

\* `x in ("none")` and `x in ("auto")` are substring tests: the
\* parenthesised string is not a tuple
SubstringsOfNone == {"", "n", "o", "e", "no", "on", "ne", "non", "one", "none"}
SubstringsOfAuto == {"", "a", "u", "t", "o", "au", "ut", "to", "aut", "uto", "auto"}

isNoneVal(w, val) ==
    IF val.t = "none" THEN TRUE
    ELSE IF val.t = "str"
    THEN IF PyLower(w.none_string) \in {"", "none"}
         THEN PyLower(val.s) \in SubstringsOfNone
         ELSE IF PyLower(w.none_string) \in SubstringsOfAuto
         THEN PyLower(val.s) \in SubstringsOfAuto
         ELSE FALSE
    ELSE FALSE

\* OptionalSpinWidget.updateState is the slot of check_widget.stateChanged
\* and of spin_widget.valueChanged: it receives the signal's argument as
\* its parameter valueChanged and emits only when that argument is truthy
\* (a checked state, a spinner value other than zero).
OptionalValue(w) == IF w.checked THEN PyNone ELSE SpinValue(w)

OptionalSetValue(w, val, strict) ==
    LET is_none == isNoneVal(w, val)
        w1 == [w EXCEPT !.checked = is_none]
        e1 == IF w.checked # is_none /\ is_none THEN 1 ELSE 0
    IN IF is_none THEN Res(w1, e1, "")
       ELSE LET r == SpinSetValue(w1, val, strict)
                e2 == IF r.emits > 0 /\ (r.w.n # 0 \/ r.w.h # 0) THEN 1 ELSE 0
            IN Res(r.w, e1 + e2, r.err)

\* QComboBox.currentText
currentText(w) == IF w.idx >= 0 /\ w.idx < Len(w.items) THEN w.items[w.idx + 1] ELSE ""

\* QComboBox.setCurrentText on a combo box that is not editable: selects the
\* first item with that text, and does nothing when there is none
setCurrentText(w, text) ==
    LET i == IndexOf(w.items, text) - 1
    IN IF i > -1 THEN Res([w EXCEPT !.idx = i], IF w.idx # i THEN 1 ELSE 0, "")
       ELSE Res(w, 0, "")

ComboSetValue(w, val) ==
    IF val.t = "int"
    THEN IF ~w.has_options_list THEN Res(w, 0, "AttributeError")
         ELSE IF val.n <= Len(w.options_list) /\ w.result_as_idx
         THEN IF val.n >= Len(w.options_list) \/ val.n < -Len(w.options_list)
              THEN Res(w, 0, "IndexError")
              ELSE LET k == IF val.n >= 0 THEN val.n + 1
                            ELSE Len(w.options_list) + val.n + 1
                   IN setCurrentText(w, w.options_list[k])
         ELSE setCurrentText(w, PyStrOf(val))
    ELSE setCurrentText(w, PyStrOf(val))

ComboValue(w) ==
    IF w.result_as_idx
    THEN PyInt(IF w.add_blank_option THEN w.idx - 1 ELSE w.idx)
    ELSE PyStr(currentText(w))

\* FieldComboWidget.set_options: clear() leaves no current item, the first
\* addItem makes item 0 the current one; each is a currentIndexChanged
ComboSetOptions(w, options_list, select_item) ==
    LET body == [i \in 1..Len(options_list) |->
                    IF options_list[i] = "---" THEN SepItem ELSE options_list[i]]
        items == IF w.add_blank_option THEN <<"">> \o body ELSE body
        e0 == IF w.idx # -1 THEN 1 ELSE 0
        e1 == IF items # <<>> THEN 1 ELSE 0
        w1 == [w EXCEPT !.items = items, !.idx = IF items = <<>> THEN -1 ELSE 0,
                        !.options_list = options_list, !.has_options_list = TRUE]
    IN IF select_item.t = "none" THEN Res(w1, e0 + e1, "")
       ELSE LET r == ComboSetValue(w1, select_item)
            IN Res(r.w, e0 + e1 + r.emits, r.err)

\* switch_to_idx that leaves the stacked widget on the page it shows
switch_to_idx_stale(w, idx) == w

\* StackBuilderWidget.switch_to_idx
switch_to_idx(w, idx) == [w EXCEPT !.shown = idx]

\* StackBuilderWidget.value
StackValue(w) == PyStr(currentText(w))

\* StackBuilderWidget.setValue
StackSetValue(w, value) ==
    IF value.t # "str" \/ IndexOf(w.option_list, value.s) = 0 THEN Res(w, 0, "")
    ELSE LET idx == IndexOf(w.option_list, value.s) - 1
         IN Res(switch_to_idx([w EXCEPT !.idx = idx], idx), 0, "")

HasIsChecked == {"QCheckBox", "QPushButton"}
HasSetValue == {"QSpinBox", "QDoubleSpinBox", "OptionalSpinWidget",
                "FieldComboWidget", "StackBuilderWidget"}
FileTypes == {"file_open", "file_dir"}

\* FormBuilderLayout.set_widget_value (a QPushButton of the form is not
\* checkable, so that its setChecked changes nothing)
set_widget_value(w, val, strict) ==
    CASE w.cls = "QCheckBox" -> setChecked(w, val)
      [] w.cls = "QPushButton" -> Res(w, 0, IF val.t # "bool" THEN "TypeError" ELSE "")
      [] w.cls \in {"QSpinBox", "QDoubleSpinBox"} -> SpinSetValue(w, val, strict)
      [] w.cls = "OptionalSpinWidget" -> OptionalSetValue(w, val, strict)
      [] w.cls = "FieldComboWidget" -> ComboSetValue(w, val)
      [] w.cls = "StackBuilderWidget" -> StackSetValue(w, val)
      [] w.cls = "QLineEdit" -> Res([w EXCEPT !.text = PyStrOf(val)], 0, "")

\* FormBuilderLayout.get_widget_value
get_widget_value(w) ==
    LET val == CASE w.cls \in HasIsChecked -> PyBool(w.checked)
                 [] w.cls \in {"QSpinBox", "QDoubleSpinBox"} -> SpinValue(w)
                 [] w.cls = "OptionalSpinWidget" -> OptionalValue(w)
                 [] w.cls = "FieldComboWidget" -> ComboValue(w)
                 [] w.cls = "StackBuilderWidget" -> StackValue(w)
                 [] w.cls = "QLineEdit" -> PyStr(w.text)
    IN CASE w.dtype = "sci" -> PyFloat(val.n, val.h)
         [] w.dtype = "int" -> PyInt(val.n)
         [] w.dtype \in FileTypes -> (IF val = PyStr("None") THEN PyNone ELSE val)
         [] OTHER -> val

-----------------------------------------------------------------------------
(* FormBuilderLayout.build_form and StackBuilderWidget.__init__ *)

OptionalTypes == {"optional_int", "optional_double", "auto_int"}

\* one iteration of the loop of build_form: the widget of one descriptor.
\* fol is the layout's field_options_lists, dbl the outcome of the identity
\* test `type is "double"` for the spin type "double".
BuildField(item, fol, dbl) ==
    LET named(w) == [w EXCEPT !.name = item.name, !.dtype = item.type]
    IN named(
       CASE item.type = "double" ->
              SpinSetValue([Widget("QDoubleSpinBox") EXCEPT !.dbl = TRUE],
                           item.default, FALSE).w
         [] item.type = "int" ->
              LET w0 == Widget("QSpinBox")
                  w1 == IF item.range # <<>>
                        THEN SpinSetRange(w0, item.range[1], item.range[2])
                        ELSE IF item.default.n > 100
                        THEN SpinSetRange(w0, 0, item.default.n * 10)
                        ELSE w0
              IN SpinSetValue(w1, item.default, FALSE).w
         [] item.type \in OptionalTypes ->
              LET w0 == [Widget("OptionalSpinWidget") EXCEPT
                            !.dbl = (item.type = "optional_double" /\ dbl),
                            !.none_string = IF item.type = "auto_int" THEN "auto" ELSE "none"]
              IN OptionalSetValue(w0, item.default, FALSE).w
         [] item.type = "bool" ->
              setChecked(Widget("QCheckBox"), item.default).w
         [] item.type = "list" ->
              LET idx_mode == item.type_options = "optional_index"
                  w0 == [Widget("FieldComboWidget") EXCEPT
                            !.result_as_idx = idx_mode, !.add_blank_option = idx_mode]
              IN IF item.name \in DOMAIN fol
                 THEN ComboSetOptions(w0, fol[item.name], PyNone).w
                 ELSE IF item.has_options
                 THEN ComboSetOptions(w0, item.options,
                          IF item.has_default THEN item.default ELSE PyStr("")).w
                 ELSE w0
         [] item.type = "button" -> Widget("QPushButton")
         [] item.type \in {"string", "optional_string"} ->
              LET val == IF item.has_default THEN item.default ELSE PyStr("")
              IN [Widget("QLineEdit") EXCEPT
                     !.text = IF val.t = "none" THEN "" ELSE PyStrOf(val)]
         [] item.type = "stacked" ->
              LET w0 == [Widget("StackBuilderWidget") EXCEPT
                            !.option_list = item.options, !.items = item.options,
                            !.idx = IF item.options = <<>> THEN -1 ELSE 0,
                            !.shown = IF item.options = <<>> THEN -1 ELSE 0]
              IN StackSetValue(w0, item.default).w
         [] OTHER ->
              [Widget("QLineEdit") EXCEPT
                  !.text = PyStrOf(IF item.has_default THEN item.default ELSE PyStr(""))])

\* FormBuilderLayout.__init__ of every layout of the form
BuildForm(form, fol, dbl) ==
    [p \in Layouts(form) |->
        LET items == ItemsAt(form, p)
        IN [nm \in {items[i].name : i \in 1..Len(items)} |->
               BuildField(ItemNamed(items, nm), fol, dbl)]]

\* the layouts of the pages of the stacks of a layout, in the order of
\* self.stacked and of page_layouts.values()
RECURSIVE ChildPathsFrom(_, _, _)
ChildPathsFrom(form, path, i) ==
    LET items == ItemsAt(form, path)
    IN IF i > Len(items) THEN <<>>
       ELSE (IF items[i].type = "stacked"
             THEN [j \in 1..Len(items[i].options) |->
                      path \o <<items[i].name, items[i].options[j]>>]
             ELSE <<>>) \o ChildPathsFrom(form, path, i + 1)

\* a layout that passes the options to none of the pages of its stacks
ChildPaths_none(form, path) == <<>>

ChildPathsTable ==
    [form \in FormNames |-> [p \in Layouts(form) |-> ChildPathsFrom(form, p, 1)]]

ChildPaths(form, path) == ChildPathsTable[form][path]

\* FormBuilderLayout.stacked, as the names of the fields in dict order
StackedNames(F, form, path) ==
    SelectSeq(ItemNames(ItemsAt(form, path)),
              LAMBDA nm : F[path][nm].cls = "StackBuilderWidget")

\* the layout of the first page, whatever the menu says
CurrentPage_first(F, path, nm) == path \o <<nm, F[path][nm].option_list[1]>>

\* the layout self.page_layouts[self.value()] of a StackBuilderWidget
CurrentPage(F, path, nm) == path \o <<nm, currentText(F[path][nm])>>

DictUpdate(d, e) == [k \in DOMAIN d \cup DOMAIN e |-> IF k \in DOMAIN e THEN e[k] ELSE d[k]]

\* FormBuilderLayout.get_form_data, with StackBuilderWidget.get_data
RECURSIVE get_form_data(_, _, _)
RECURSIVE StackedData(_, _, _, _, _)
get_form_data(F, form, path) ==
    LET ws == F[path]
        data == [nm \in {nm \in DOMAIN ws : ws[nm].name # "" /\ ws[nm].cls # "QPushButton"}
                    |-> get_widget_value(ws[nm])]
    IN StackedData(F, form, path, StackedNames(F, form, path), data)

StackedData(F, form, path, stacks, data) ==
    IF stacks = <<>> THEN data
    ELSE StackedData(F, form, path, Tail(stacks),
             DictUpdate(data, get_form_data(F, form, CurrentPage(F, path, Head(stacks)))))

\* FormBuilderLayout.find_field, with StackBuilderWidget.find_field; a
\* widget is returned as <<path of its layout, name>>
RECURSIVE find_field(_, _, _, _)
RECURSIVE StackedFound(_, _, _, _, _)
find_field(F, form, path, field_name) ==
    LET ws == F[path]
        found == SelectSeq([i \in 1..Len(ItemsAt(form, path)) |->
                               <<path, ItemsAt(form, path)[i].name>>],
                           LAMBDA r : ws[r[2]].name = field_name
                                      /\ ws[r[2]].cls # "QPushButton")
    IN found \o StackedFound(F, form, path, StackedNames(F, form, path), field_name)

StackedFound(F, form, path, stacks, field_name) ==
    IF stacks = <<>> THEN <<>>
    ELSE find_field(F, form, CurrentPage(F, path, Head(stacks)), field_name)
         \o StackedFound(F, form, path, Tail(stacks), field_name)

\* state threaded through an operation of the form: the widgets, the
\* options dicts, the emissions of the top-level valueChanged, the exception
St(F, fol, e, x) == [F |-> F, fol |-> fol, emits |-> e, err |-> x]

\* a widget call made on the field nm of the layout path: the change
\* signals of the top-level layout are the ones connected to the form's
\* valueChanged (the valueChanged of a page layout is connected to nothing)
Apply(st, path, nm, r) ==
    St([st.F EXCEPT ![path][nm] = r.w], st.fol,
       st.emits + (IF path = <<>> THEN r.emits ELSE 0), r.err)

\* set_form_data that looks every key up in the fields: a key that names
\* no field raises KeyError
RECURSIVE set_form_data_keyerror(_, _, _)
set_form_data_keyerror(st, data, strict) ==
    IF data = <<>> \/ st.err # "" THEN st
    ELSE LET name == Head(data)[1]
             val == Head(data)[2]
             widgets == st.F[<<>>]
         IN set_form_data_keyerror(
                IF name \in DOMAIN widgets
                THEN Apply(st, <<>>, name, set_widget_value(widgets[name], val, strict))
                ELSE [st EXCEPT !.err = "KeyError"],
                Tail(data), strict)

\* FormBuilderLayout.set_form_data: data is the list of the (key, value)
\* items of the dict, in dict order
RECURSIVE set_form_data(_, _, _)
set_form_data(st, data, strict) ==
    IF data = <<>> \/ st.err # "" THEN st
    ELSE LET name == Head(data)[1]
             val == Head(data)[2]
             widgets == st.F[<<>>]
         IN set_form_data(
                IF name \in DOMAIN widgets
                THEN Apply(st, <<>>, name, set_widget_value(widgets[name], val, strict))
                ELSE st,
                Tail(data), strict)

\* FormBuilderLayout.update_field_options, from the i-th field on
RECURSIVE update_field_options(_, _, _, _)
update_field_options(st, form, path, i) ==
    LET names == ItemNames(ItemsAt(form, path))
    IN IF i > Len(names) \/ st.err # "" THEN st
       ELSE LET field_name == names[i]
                field == st.F[path][field_name]
            IN update_field_options(
                   IF field_name \in DOMAIN st.fol[path]
                   THEN IF field.cls = "FieldComboWidget"
                        THEN Apply(st, path, field_name,
                                   ComboSetOptions(field, st.fol[path][field_name], PyNone))
                        ELSE [st EXCEPT !.err = "AttributeError"]
                   ELSE st,
                   form, path, i + 1)

\* self.field_options_lists[field_name] = options_list: one dict object
\* when the layouts share it
SetOptionsList(fol, shared, path, field_name, options_list) ==
    IF shared
    THEN [p \in DOMAIN fol |-> DictSet(fol[p], field_name, options_list)]
    ELSE [fol EXCEPT ![path] = DictSet(fol[path], field_name, options_list)]

\* FormBuilderLayout.set_field_options, with
\* StackBuilderWidget.set_field_options for the pages of its stacks
RECURSIVE set_field_options(_, _, _, _, _, _)
RECURSIVE SubformOptions(_, _, _, _, _, _)
set_field_options(st, form, shared, path, field_name, options_list) ==
    LET st1 == [st EXCEPT !.fol = SetOptionsList(st.fol, shared, path, field_name, options_list)]
        st2 == SubformOptions(st1, form, shared, ChildPaths(form, path), field_name, options_list)
    IN IF st2.err # "" THEN st2 ELSE update_field_options(st2, form, path, 1)

SubformOptions(st, form, shared, subforms, field_name, options_list) ==
    IF subforms = <<>> \/ st.err # "" THEN st
    ELSE SubformOptions(
             set_field_options(st, form, shared, Head(subforms), field_name, options_list),
             form, shared, Tail(subforms), field_name, options_list)

-----------------------------------------------------------------------------
(* Inputs *)

MaxNum == 2
MaxData == 2

IntInputs == {PyInt(n) : n \in 0..MaxNum}
FloatInputs == {PyFloat(n, h) : n \in 0..MaxNum, h \in {0, 1}}
TextInputs == {"", "t"}
FileInputs == {"", "f"}
OptionInputs == {<<"y", "z">>, <<"z">>}

\* the field_options_lists argument of YamlFormWidget: none, or one custom list
OptionsArgs == {EmptyDict, [node |-> <<"x", "y", "z">>]}

AllItems(form) ==
    UNION {{ItemsAt(form, p)[i] : i \in 1..Len(ItemsAt(form, p))} : p \in Layouts(form)}

TypesOf(form) == {it.type : it \in AllItems(form)}

ListNames(form) == {it.name : it \in {x \in AllItems(form) : x.type = "list"}}

OtherName == "other"

\* the values a caller gives to a field of one type
ValuesFor(item) ==
    CASE item.type = "bool" -> {PyBool(TRUE), PyBool(FALSE)}
      [] item.type = "int" -> IntInputs
      [] item.type = "double" -> FloatInputs
      [] item.type \in {"optional_int", "auto_int"} -> IntInputs \cup {PyNone}
      [] item.type = "optional_double" -> FloatInputs \cup {PyNone}
      [] item.type = "list" ->
           IF item.type_options = "optional_index"
           THEN {PyNone} \cup {PyInt(n) : n \in (-1)..MaxNum}
           ELSE {PyStr("a"), PyStr("b"), PyStr("y")}
      [] item.type = "stacked" -> {PyStr(item.options[i]) : i \in 1..Len(item.options)}
      [] item.type = "button" -> {}
      [] item.type \in FileTypes -> {PyNone, PyStr("f")}
      [] OTHER -> {PyStr(t) : t \in TextInputs}

\* the record of the last operation: a call of the interface with its
\* arguments, or an edit of the user
NoOp == [op |-> "init", name |-> "", val |-> PyNone, data |-> <<>>]

Op(op, name, val) == [NoOp EXCEPT !.op = op, !.name = name, !.val = val]

UserOp == Op("user", "", PyNone)

-----------------------------------------------------------------------------
(* The track overlays: labels.nodes is a list of node names, a labeled     *)
(* frame is [video, frame_idx, instances], an instance is [track, points]  *)
(* with points a dict node -> [visible, x, y]                              *)

DefaultTrailLength == 10

NoCall == [op |-> "none", video |-> "", frame_idx |-> 0, track |-> "",
           include_trails |-> FALSE, result |-> <<>>]

\* TrackListOverlay.text_box is None
NoTextBox == [none |-> TRUE, html |-> <<>>, visible |-> FALSE, pos |-> <<0, 0>>,
              in_scene |-> FALSE]

\* the attributes of the overlays without a dataset
NoOverlay ==
    /\ labels = [nodes |-> <<>>, frames |-> <<>>, tracks |-> <<>>]
    /\ trail_length = DefaultTrailLength
    /\ show = FALSE
    /\ drawn = <<>>
    /\ call = NoCall
    /\ text_box = NoTextBox

\* the point a trail takes from an instance without carrying forward
TrailPoint_nocarry(inst, node, trail) ==
    IF node \in DOMAIN inst.points /\ inst.points[node].visible
    THEN << <<inst.points[node].x, inst.points[node].y>> >>
    ELSE <<>>

\* the body of the node loop of get_track_trails: the point to append to
\* the trail of the node, as a list of one point, or of none for None
TrailPoint(inst, node, trail) ==
    IF node \in DOMAIN inst.points /\ inst.points[node].visible
    THEN << <<inst.points[node].x, inst.points[node].y>> >>
    ELSE IF Len(trail) > 0 THEN << trail[Len(trail)] >>
    ELSE <<>>

\* TrackTrailOverlay.get_track_trails, from the k-th frame of the selection on
RECURSIVE TrackTrailsFrom(_, _, _, _, _)
TrackTrailsFrom(nodes, frame_selection, track, k, all_trails) ==
    IF k > Len(frame_selection) THEN all_trails
    ELSE LET frame == frame_selection[k]
             inst_on_track == SelectSeq(frame.instances, LAMBDA instance : instance.track = track)
         IN TrackTrailsFrom(nodes, frame_selection, track, k + 1,
                IF inst_on_track # <<>>
                THEN [node_i \in 1..Len(nodes) |->
                         all_trails[node_i]
                         \o TrailPoint(inst_on_track[1], nodes[node_i], all_trails[node_i])]
                ELSE all_trails)

get_track_trails(nodes, frame_selection, track) ==
    TrackTrailsFrom(nodes, frame_selection, track, 1, [node_i \in 1..Len(nodes) |-> <<>>])

\* Labels.find(video, frame_idx or range): the labeled frames of the video
\* with these frame indexes, in the order of the dataset
find(frames, video, idxs) ==
    SelectSeq(frames, LAMBDA lf : lf.video = video /\ lf.frame_idx \in idxs)

\* list.sort(key=lambda x: x.frame_idx): a stable sort, by insertion
RECURSIVE SortByFrameIdx(_)
SortByFrameIdx(seq) ==
    IF seq = <<>> THEN <<>>
    ELSE LET rest == SortByFrameIdx(SubSeq(seq, 1, Len(seq) - 1))
             x == seq[Len(seq)]
             before == SelectSeq(rest, LAMBDA y : y.frame_idx <= x.frame_idx)
             after == SelectSeq(rest, LAMBDA y : y.frame_idx > x.frame_idx)
         IN before \o <<x>> \o after

\* the slice seq[:n], the first n of the list
SliceLast_first(seq, n) ==
    SubSeq(seq, 1, IF n >= Len(seq) THEN Len(seq) ELSE n)

\* the slice seq[-n:] of Python, for n >= 0: -0 is 0, and the whole list
SliceLast(seq, n) ==
    IF n = 0 \/ n >= Len(seq) THEN seq
    ELSE SubSeq(seq, Len(seq) - n + 1, Len(seq))

\* TrackTrailOverlay.get_frame_selection
get_frame_selection(frames, n, video, frame_idx) ==
    SliceLast(SortByFrameIdx(find(frames, video, 0..frame_idx)), n)

RECURSIVE Flatten(_)
Flatten(seqs) == IF seqs = <<>> THEN <<>> ELSE Head(seqs) \o Flatten(Tail(seqs))

\* TrackTrailOverlay.get_tracks_in_frame
get_tracks_in_frame(frames, n, video, frame_idx, include_trails) ==
    LET lfs == IF include_trails THEN get_frame_selection(frames, n, video, frame_idx)
               ELSE find(frames, video, {frame_idx})
    IN Flatten([i \in 1..Len(lfs) |->
                   [j \in 1..Len(lfs[i].instances) |-> lfs[i].instances[j].track]])

\* TrackTrailOverlay.map_to_qt_polygon: the QPointF of every (x, y)
map_to_qt_polygon(point_list) ==
    [i \in 1..Len(point_list) |-> [x |-> point_list[i][1], y |-> point_list[i][2]]]

AlphaFull == PyFloat(1, 0)
AlphaHalf == PyFloat(0, 1)

\* a polygon added to the scene with a pen of the color of a track
Polygon(polygon, track, alpha) == [polygon |-> polygon, color |-> track, alpha |-> alpha]

\* the two polygons with the later half of the trail first
TrailPolygons_swapped(trail, track) ==
    LET half == Len(trail) \div 2
    IN << Polygon(map_to_qt_polygon(SubSeq(trail, half + 1, Len(trail))), track, AlphaFull),
          Polygon(map_to_qt_polygon(SubSeq(trail, 1, half)), track, AlphaHalf) >>

\* the body of the trail loop of add_to_scene: the two polygons of a trail
TrailPolygons(trail, track) ==
    LET half == Len(trail) \div 2
    IN << Polygon(map_to_qt_polygon(SubSeq(trail, 1, half)), track, AlphaFull),
          Polygon(map_to_qt_polygon(SubSeq(trail, half + 1, Len(trail))), track, AlphaHalf) >>

\* the queries of add_to_scene on the dataset and on the color manager, in
\* order: labels.find by get_frame_selection and again by
\* get_tracks_in_frame, then get_track_color for every track
add_to_scene_queries(lbls, n, shown, video, frame_idx) ==
    IF ~shown THEN <<>>
    ELSE LET tracks_in_frame == get_tracks_in_frame(lbls.frames, n, video, frame_idx, TRUE)
             q == [fn |-> "find", video |-> video, frame_idx |-> frame_idx, track |-> ""]
         IN <<q, q>> \o [t \in 1..Len(tracks_in_frame) |->
                            [fn |-> "get_track_color", video |-> "", frame_idx |-> 0,
                             track |-> tracks_in_frame[t]]]

\* add_to_scene without the test of show
add_to_scene_always(lbls, n, shown, video, frame_idx) ==
    LET frame_selection == get_frame_selection(lbls.frames, n, video, frame_idx)
        tracks_in_frame == get_tracks_in_frame(lbls.frames, n, video, frame_idx, TRUE)
    IN Flatten([t \in 1..Len(tracks_in_frame) |->
           LET trails == get_track_trails(lbls.nodes, frame_selection, tracks_in_frame[t])
           IN Flatten([i \in 1..Len(trails) |->
                          TrailPolygons(trails[i], tracks_in_frame[t])])])

\* TrackTrailOverlay.add_to_scene: the items added to the scene, in order
add_to_scene(lbls, n, shown, video, frame_idx) ==
    IF ~shown THEN <<>>
    ELSE LET frame_selection == get_frame_selection(lbls.frames, n, video, frame_idx)
             tracks_in_frame == get_tracks_in_frame(lbls.frames, n, video, frame_idx, TRUE)
         IN Flatten([t \in 1..Len(tracks_in_frame) |->
                LET trails == get_track_trails(lbls.nodes, frame_selection, tracks_in_frame[t])
                IN Flatten([i \in 1..Len(trails) |->
                               TrailPolygons(trails[i], tracks_in_frame[t])])])

MaxShown == 9

\* num_to_show of the track list, without the cap
NumToShow_all(tracks) == Len(tracks)

\* num_to_show of TrackListOverlay.add_to_scene
NumToShow(tracks) == IF MaxShown <= Len(tracks) THEN MaxShown ELSE Len(tracks)

\* the span of the idx-th track of the list: its color and its text
TrackSpan(track, idx) ==
    [color |-> track.id,
     text |-> "<b>" \o track.name \o "</b>"
              \o (IF ToString(idx) # track.name THEN " (" \o ToString(idx) \o ")" ELSE "")]

\* the html of TrackListOverlay.add_to_scene, as the list of the spans that
\* "<br />" joins
TrackListHtml(tracks) ==
    [i \in 1..NumToShow(tracks) |-> TrackSpan(tracks[i], i)]

\* the setter of TrackListOverlay.visible; posx is the x of view.mapToScene(10, 10)
SetVisibleOf(box, val, posx) ==
    IF box.none THEN box
    ELSE [box EXCEPT !.pos = IF val THEN (IF posx > 0 THEN <<posx, 10>> ELSE <<10, 10>>) ELSE @,
                     !.visible = val]

\* the getter of TrackListOverlay.visible
visible(box) == IF box.none THEN FALSE ELSE box.visible

\* TrackListOverlay.add_to_scene: the new text box, hidden and in the scene
list_add_to_scene(tracks) ==
    [SetVisibleOf([none |-> FALSE, html |-> TrackListHtml(tracks), visible |-> TRUE,
                   pos |-> <<0, 0>>, in_scene |-> FALSE], FALSE, 0)
     EXCEPT !.in_scene = TRUE]

-----------------------------------------------------------------------------
(* The form: construction and operations *)

Init ==
    /\ which_form \in FormNames
    /\ \E arg \in (IF ListNames(which_form) # {} THEN OptionsArgs ELSE {EmptyDict}) :
          /\ shared_options = (arg # EmptyDict)
          /\ field_options_lists = [p \in Layouts(which_form) |-> arg]
    /\ is_double \in (IF "optional_double" \in TypesOf(which_form) THEN BOOLEAN ELSE {FALSE})
    /\ strict_int \in (IF "optional_double" \in TypesOf(which_form) /\ ~is_double
                       THEN BOOLEAN ELSE {FALSE})
    /\ fields = BuildForm(which_form, field_options_lists[<<>>], is_double)
    /\ sig = 0
    /\ err = ""
    /\ last = NoOp
    /\ NoOverlay

\* a layout is on screen when every stack above it shows its page
RECURSIVE Visible(_, _)
Visible(F, path) ==
    \/ path = <<>>
    \/ LET parent == SubSeq(path, 1, Len(path) - 2)
           stack == F[parent][path[Len(path) - 1]]
       IN /\ Visible(F, parent)
          /\ stack.shown = IndexOf(stack.option_list, path[Len(path)]) - 1

OnScreen(cls) ==
    {r \in UNION {{<<p, nm>> : nm \in DOMAIN fields[p]} : p \in DOMAIN fields} :
        Visible(fields, r[1]) /\ fields[r[1]][r[2]].cls \in cls}

Done(st, op) ==
    /\ fields' = st.F
    /\ field_options_lists' = st.fol
    /\ sig' = st.emits
    /\ err' = st.err
    /\ last' = op
    /\ UNCHANGED <<which_form, shared_options, is_double, strict_int>>
    /\ UNCHANGED overlayVars

Now == St(fields, field_options_lists, 0, "")

\* the user clicks a check box: stateChanged, and the lambda of build_form
UserCheck(p, nm) ==
    LET w == fields[p][nm]
    IN Done(Apply(Now, p, nm, setChecked(w, PyBool(~w.checked))), UserOp)

\* the user changes a spin box: valueChanged, and the lambda of build_form
UserSpin(p, nm, val) ==
    LET w == fields[p][nm]
    IN /\ val.t = (IF w.dbl THEN "float" ELSE "int")
       /\ val.n >= w.lo /\ val.n <= w.hi
       /\ ~PyEq(val, SpinValue(w))
       /\ Done(Apply(Now, p, nm, SpinSetValue(w, val, FALSE)), UserOp)

\* the user clicks the check box of an OptionalSpinWidget: updateState is
\* called with the new check state
UserOptionalCheck(p, nm) ==
    LET w == fields[p][nm]
    IN Done(Apply(Now, p, nm, Res([w EXCEPT !.checked = ~w.checked],
                                  IF ~w.checked THEN 1 ELSE 0, "")),
            UserOp)

\* the user changes the spinner of an OptionalSpinWidget (enabled while the
\* box is not checked): updateState is called with the new value
UserOptionalSpin(p, nm, val) ==
    LET w == fields[p][nm]
    IN /\ ~w.checked
       /\ val.t = (IF w.dbl THEN "float" ELSE "int")
       /\ val.n >= w.lo /\ val.n <= w.hi
       /\ ~PyEq(val, SpinValue(w))
       /\ Done(Apply(Now, p, nm, Res([w EXCEPT !.n = val.n, !.h = val.h],
                                     IF val.n # 0 \/ val.h # 0 THEN 1 ELSE 0, "")),
               UserOp)

\* the user picks an item of a drop-down: currentIndexChanged, and the
\* lambda of build_form
UserSelect(p, nm, i) ==
    LET w == fields[p][nm]
    IN /\ i \in 0..(Len(w.items) - 1)
       /\ i # w.idx
       /\ w.items[i + 1] # SepItem
       /\ Done(Apply(Now, p, nm, Res([w EXCEPT !.idx = i], 1, "")), UserOp)

\* the user types in a text field that is enabled: build_form connects
\* no signal of a QLineEdit
UserType(p, nm, text) ==
    LET w == fields[p][nm]
    IN /\ w.dtype \notin FileTypes
       /\ text # w.text
       /\ Done(Apply(Now, p, nm, Res([w EXCEPT !.text = text], 0, "")), UserOp)

\* select_file of _make_file_button: the chooser returns filename ("" when
\* the user cancels), and valueChanged is emitted either way
select_file(p, nm, filename) ==
    LET w == fields[p][nm]
    IN /\ w.dtype \in FileTypes
       /\ Done(Apply(Now, p, nm,
                     Res(IF filename # "" THEN [w EXCEPT !.text = filename] ELSE w, 1, "")),
               Op("select_file", "", PyNone))

\* the user activates an item of the drop-down of a stack: the combo box
\* makes it current and its activated signal calls switch_to_idx
SwitchToIdx(p, nm, idx) ==
    LET w == fields[p][nm]
    IN /\ idx \in 0..(Len(w.items) - 1)
       /\ Done(Apply(Now, p, nm, Res(switch_to_idx([w EXCEPT !.idx = idx], idx), 0, "")),
               Op("switch_to_idx", "", PyNone))

\* YamlFormWidget.__setitem__
SetItem(key, val) ==
    /\ key \in DOMAIN fields[<<>>]
    /\ Done(Apply(Now, <<>>, key, set_widget_value(fields[<<>>][key], val, strict_int)),
            Op("setitem", key, val))

\* YamlFormWidget.set_field_options
SetFieldOptions(field_name, options_list) ==
    Done(set_field_options(Now, which_form, shared_options, <<>>, field_name, options_list),
         [Op("set_field_options", field_name, PyNone) EXCEPT !.data = options_list])

ItemSetTable ==
    [form \in FormNames |-> [p \in Layouts(form) |->
        {ItemsAt(form, p)[i] : i \in 1..Len(ItemsAt(form, p))}]]

TopItems == ItemSetTable[which_form][<<>>]

ListNamesTable == [form \in FormNames |-> ListNames(form)]

Next ==
    \/ \E r \in OnScreen({"QCheckBox"}) : UserCheck(r[1], r[2])
    \/ \E r \in OnScreen({"QSpinBox", "QDoubleSpinBox"}) :
          \E val \in IntInputs \cup FloatInputs : UserSpin(r[1], r[2], val)
    \/ \E r \in OnScreen({"OptionalSpinWidget"}) : UserOptionalCheck(r[1], r[2])
    \/ \E r \in OnScreen({"OptionalSpinWidget"}) :
          \E val \in IntInputs \cup FloatInputs : UserOptionalSpin(r[1], r[2], val)
    \/ \E r \in OnScreen({"FieldComboWidget"}) : \E i \in 0..3 : UserSelect(r[1], r[2], i)
    \/ \E r \in OnScreen({"QLineEdit"}) : \E text \in TextInputs : UserType(r[1], r[2], text)
    \/ \E r \in OnScreen({"QLineEdit"}) : \E f \in FileInputs : select_file(r[1], r[2], f)
    \/ \E r \in OnScreen({"StackBuilderWidget"}) : \E i \in 0..1 : SwitchToIdx(r[1], r[2], i)
    \/ \E it \in TopItems : \E val \in ValuesFor(it) : SetItem(it.name, val)
    \/ \E nm \in ListNamesTable[which_form] \cup {OtherName} :
          \E options_list \in OptionInputs : SetFieldOptions(nm, options_list)

Spec == Init /\ [][Next]_vars

-----------------------------------------------------------------------------
(* set_form_data on its own: each call is made on a form as the           *)
(* construction, the check boxes and the page switches of the user and     *)
(* earlier calls left it, and the call's data is kept until the next step  *)

NamesTable == [form \in FormNames |-> {it.name : it \in AllItems(form)}]

\* the (key, value) items a caller passes: the fields of the form with the
\* values of their types, and a key that names no field
DataValuesFor(item) ==
    CASE item.type = "bool" -> {PyBool(TRUE), PyBool(FALSE)}
      [] item.type = "int" -> {PyInt(0), PyInt(MaxNum)}
      [] item.type = "double" -> {PyFloat(MaxNum, 1)}
      [] item.type \in {"optional_int", "auto_int"} -> {PyNone, PyInt(MaxNum)}
      [] item.type = "optional_double" -> {PyNone, PyFloat(0, 1)}
      [] item.type = "list" ->
           IF item.type_options = "optional_index"
           THEN {PyNone, PyInt(1), PyInt(MaxNum)}
           ELSE {PyStr("a"), PyStr("y")}
      [] item.type = "stacked" -> {PyStr(item.options[i]) : i \in 1..Len(item.options)}
      [] item.type = "button" -> {}
      [] item.type \in FileTypes -> {PyNone, PyStr("f")}
      [] OTHER -> {PyStr("t")}

PairsOf(form) ==
    UNION {{<<it.name, v>> : v \in DataValuesFor(it)} : it \in AllItems(form)}
    \cup {<<OtherName, PyInt(0)>>}

DataOf(form) ==
    {d \in UNION {[1..k -> PairsOf(form)] : k \in 1..MaxData} :
        \A i, j \in 1..Len(d) : i # j => d[i][1] # d[j][1]}

DataTable == [form \in FormNames |-> DataOf(form)]

\* YamlFormWidget.set_form_data
SetFormData(data) ==
    /\ last.op # "set_form_data"
    /\ Done(set_form_data(Now, data, strict_int),
            [Op("set_form_data", "", PyNone) EXCEPT !.data = data])

NextData ==
    \/ \E data \in DataTable[which_form] : SetFormData(data)
    \/ \E r \in OnScreen({"QCheckBox"}) : UserCheck(r[1], r[2])
    \/ \E r \in OnScreen({"StackBuilderWidget"}) : \E i \in 0..1 : SwitchToIdx(r[1], r[2], i)

SpecData == Init /\ [][NextData]_vars

-----------------------------------------------------------------------------
(* Properties of the form engine *)

Button == "QPushButton"

\* the layouts on display: the top-level layout and the page each stack shows
ShownLayouts == {p \in DOMAIN fields : Visible(fields, p)}

\* the (layout, name) of the fields on display that carry a value
ShownFields ==
    UNION {{<<p, nm>> : nm \in {x \in DOMAIN fields[p] : fields[p][x].cls # Button}} :
              p \in ShownLayouts}

AnyName == NamesTable[which_form] \cup {OtherName}

Range(seq) == {seq[i] : i \in 1..Len(seq)}

FormData == get_form_data(fields, which_form, <<>>)

\* the value val satisfies the constraints of the field of the control w:
\* its type and, for a number, the range of the spinner
Fits(w, val) ==
    CASE w.cls = "QCheckBox" -> val.t = "bool"
      [] w.cls = "QSpinBox" -> val.t = "int" /\ val.n >= w.lo /\ val.n <= w.hi
      [] w.cls = "QDoubleSpinBox" -> IsNum(val) /\ val.n >= w.lo /\ val.n <= w.hi
      [] w.cls = "OptionalSpinWidget" ->
           \/ val = PyNone
           \/ /\ IsNum(val) /\ val.n >= w.lo /\ val.n <= w.hi
              /\ (val.t = "int" \/ w.dtype = "optional_double")
      [] w.cls = "FieldComboWidget" ->
           IF w.result_as_idx
           THEN val = PyNone \/ (val.t = "int" /\ val.n >= 0 /\ val.n < Len(w.options_list))
           ELSE val.t = "str" /\ val.s \in Range(w.items) \ {SepItem}
      [] w.cls = "StackBuilderWidget" -> val.t = "str" /\ val.s \in Range(w.option_list)
      [] w.cls = "QLineEdit" -> val.t = "str" \/ (val = PyNone /\ w.dtype \in FileTypes)
      [] OTHER -> FALSE

\* the value val is one the control w can hold and give back
Holds(w, val) ==
    CASE w.cls = "OptionalSpinWidget" ->
           Fits(w, val) /\ (val.t = "float" => w.dbl)
      [] w.cls = "FieldComboWidget" /\ w.result_as_idx ->
           Fits(w, val) /\ val.t = "int"
      [] OTHER -> Fits(w, val)

\* C1: after set_form_data(m), for a mapping m whose keys name fields on
\* display (top-level fields and fields of the selected pages) and whose
\* values are values these fields can hold, get_form_data() gives back the
\* value of every key of m.
C1_RoundTrip ==
    (/\ last.op = "set_form_data"
     /\ \A i \in 1..Len(last.data) :
           /\ \E r \in ShownFields : r[2] = last.data[i][1]
           /\ \A r \in ShownFields :
                 r[2] = last.data[i][1] => Holds(fields[r[1]][r[2]], last.data[i][2]))
    => \A i \in 1..Len(last.data) :
          /\ last.data[i][1] \in DOMAIN FormData
          /\ PyEq(FormData[last.data[i][1]], last.data[i][2])

\* C2: a setValue on an optional_int, optional_double or auto_int field,
\* with None or with a number within the bounds of the spinner, is read
\* back by value() unchanged, whatever was set before.
C2_OptionalSetThenRead ==
    (/\ last.op = "setitem"
     /\ fields[<<>>][last.name].cls = "OptionalSpinWidget"
     /\ Fits(fields[<<>>][last.name], last.val))
    => /\ err = ""
       /\ PyEq(OptionalValue(fields[<<>>][last.name]), last.val)

\* C3: find_field(name) returns exactly the fields called name of the
\* top-level layout and of the pages on display, each once, and so none of
\* a page that is not selected.
C3_FindFieldOnSelectedPage ==
    \A name \in AnyName :
        LET found == find_field(fields, which_form, <<>>, name)
        IN /\ Range(found) = {r \in ShownFields : r[2] = name}
           /\ Len(found) = Cardinality(Range(found))

C3_Witness ==
    /\ last.op \in {"switch_to_idx", "setitem"}
    /\ <<"method", "p2", "inner", "q1">> \in ShownLayouts
    /\ find_field(fields, which_form, <<>>, "k") = <<>>
    /\ find_field(fields, which_form, <<>>, "node")
          = << <<<<>>, "node">>, <<<<"method", "p2">>, "node">>,
               <<<<"method", "p2", "inner", "q1">>, "node">> >>

\* C4: the keys of get_form_data() are the names of the value-carrying
\* fields of the top-level layout and of the selected pages, never a button
\* and never a field that is only on a page that is not selected; a field
\* of the deepest selected page gives its key its value.
C4_FormDataOfSelectedPage ==
    /\ DOMAIN FormData = {r[2] : r \in ShownFields}
    /\ \A r \in ShownFields :
          (\A q \in ShownFields : q[2] = r[2] => Len(q[1]) <= Len(r[1]))
          => FormData[r[2]] = get_widget_value(fields[r[1]][r[2]])

C4_Witness ==
    /\ last.op \in {"switch_to_idx", "setitem"}
    /\ <<"method", "p2">> \in ShownLayouts
    /\ DOMAIN FormData = {"node", "method", "inner"}
    /\ "k" \in DOMAIN fields[<<"method", "p1">>]
    /\ "go" \in DOMAIN fields[<<>>]

\* the items of a drop-down that holds the options list
ItemsFor(w, options_list) ==
    (IF w.add_blank_option THEN <<"">> ELSE <<>>)
    \o [i \in 1..Len(options_list) |->
           IF options_list[i] = "---" THEN SepItem ELSE options_list[i]]

\* C5: after set_field_options(name, options) every drop-down called name,
\* in the top-level layout and in every page of every stack, holds the new
\* options list.
C5_OptionsEverywhere ==
    last.op = "set_field_options"
    => /\ err = ""
       /\ \A p \in DOMAIN fields :
             (last.name \in DOMAIN fields[p] /\ fields[p][last.name].cls = "FieldComboWidget")
             => /\ fields[p][last.name].options_list = last.data
                /\ fields[p][last.name].items = ItemsFor(fields[p][last.name], last.data)

C5_Witness ==
    /\ which_form = "stack"
    /\ last.op = "set_field_options"
    /\ last.name = "node"
    /\ ~shared_options
    /\ <<"method", "p2">> \notin ShownLayouts
    /\ fields[<<"method", "p2", "inner", "q1">>]["node"].options_list = last.data
    /\ fields[<<>>]["node"].items = <<"">> \o last.data

KnownKeys(data) == SelectSeq(data, LAMBDA kv : kv[1] \in DOMAIN fields[<<>>])

\* C6: a call of set_form_data does what the call without the keys that
\* name no field of the layout does: the same controls get the same values,
\* with the same signals, and a key that names no field raises nothing.
C6_UnknownKeysIgnored ==
    [][last'.op = "set_form_data"
       => LET st == set_form_data(Now, KnownKeys(last'.data), strict_int)
          IN fields' = st.F /\ err' = st.err /\ sig' = st.emits]_vars

C6_Witness ==
    /\ last.op = "set_form_data"
    /\ Len(last.data) = 2
    /\ last.data[1][1] = OtherName
    /\ last.data[2] = <<"flag", PyBool(TRUE)>>
    /\ fields[<<>>]["flag"].checked
    /\ err = ""

\* C7: the value of a drop-down in optional index mode is None when its
\* blank first entry is selected and the index of the selected option in
\* the options list otherwise.
C7_OptionalIndexValue ==
    \A p \in DOMAIN fields : \A nm \in DOMAIN fields[p] :
        LET w == fields[p][nm]
        IN (w.cls = "FieldComboWidget" /\ w.result_as_idx /\ w.add_blank_option
            /\ w.has_options_list)
           => get_widget_value(w) = (IF w.idx = 0 THEN PyNone ELSE PyInt(w.idx - 1))

\* C8: every change of the value of a value-carrying control of the form,
\* the controls of the pages of a stack included, emits the valueChanged
\* signal of the top-level form.
C8_ChangeEmits ==
    [][(\E p \in DOMAIN fields : \E nm \in DOMAIN fields[p] :
            /\ fields[p][nm].cls # Button
            /\ get_widget_value(fields'[p][nm]) # get_widget_value(fields[p][nm]))
       => sig' > 0]_vars

-----------------------------------------------------------------------------
(* The overlays: datasets and calls *)

MaxCells == 4

Videos == {"v1", "v2"}
Tracks == {"t1", "t2"}
NodeLists == {<<"head">>, <<"head", "tail">>}

Visible55 == [visible |-> TRUE, x |-> 5, y |-> 5]
Visible99 == [visible |-> TRUE, x |-> 9, y |-> 9]
Hidden11 == [visible |-> FALSE, x |-> 1, y |-> 1]

\* the points of an instance: every node visible, hidden or not in the instance
PointDicts(nodes, points) ==
    UNION {[ns -> points] : ns \in SUBSET Range(nodes)}

InstancesOf(nodes, points, whole) ==
    {[track |-> t, points |-> d] :
        t \in Tracks,
        d \in {x \in PointDicts(nodes, points) : whole => DOMAIN x = Range(nodes)}}

\* the lists of at most cap instances
InstanceLists(nodes, points, whole, cap) ==
    UNION {[1..k -> InstancesOf(nodes, points, whole)] : k \in 0..cap}

\* labels is a dataset of one video with the labeled frames 0, 1, ... in
\* order, of at most MaxCells cells: nodes x instances of a frame x frames
IsDataset(points, whole) ==
    \E nodes \in NodeLists : \E cap \in 1..2 :
    \E nf \in {f \in 0..MaxCells : Len(nodes) * cap * f <= MaxCells} :
    \E insts \in [1..nf -> InstanceLists(nodes, points, whole, cap)] :
        labels = [nodes |-> nodes, tracks |-> <<"t1", "t2">>,
                  frames |-> [k \in 1..nf |->
                                 [video |-> "v1", frame_idx |-> k - 1, instances |-> insts[k]]]]

FormIdle ==
    /\ which_form = "scalars"
    /\ shared_options = FALSE
    /\ field_options_lists = [p \in Layouts(which_form) |-> EmptyDict]
    /\ is_double = FALSE
    /\ strict_int = FALSE
    /\ fields = BuildForm(which_form, EmptyDict, is_double)
    /\ sig = 0
    /\ err = ""
    /\ last = NoOp

CallOf(op, video, frame_idx, track, include_trails, result) ==
    [op |-> op, video |-> video, frame_idx |-> frame_idx, track |-> track,
     include_trails |-> include_trails, result |-> result]

\* get_track_trails on its own: the frames of the dataset are the selection
InitTrails ==
    /\ FormIdle
    /\ IsDataset({Visible55, Visible99, Hidden11}, FALSE)
    /\ trail_length = DefaultTrailLength
    /\ show = FALSE
    /\ drawn = <<>>
    /\ call = NoCall
    /\ text_box = NoTextBox

GetTrackTrails(track) ==
    /\ call' = CallOf("get_track_trails", "", 0, track, FALSE,
                      get_track_trails(labels.nodes, labels.frames, track))
    /\ UNCHANGED <<labels, trail_length, show, drawn, text_box>>
    /\ UNCHANGED formVars

NextTrails == \E track \in Tracks : GetTrackTrails(track)

SpecTrails == InitTrails /\ [][NextTrails]_vars

\* the trail lengths: none, shorter than the history, and all of it
TrailLengths == {0, 1, 2, MaxCells}

\* add_to_scene on datasets whose points are all visible
InitScene ==
    /\ FormIdle
    /\ IsDataset({Visible55, Visible99}, TRUE)
    /\ trail_length \in TrailLengths
    /\ show \in BOOLEAN
    /\ drawn = <<>>
    /\ call = NoCall
    /\ text_box = NoTextBox

AddToScene(video, frame_idx) ==
    /\ drawn' = add_to_scene(labels, trail_length, show, video, frame_idx)
    /\ call' = CallOf("add_to_scene", video, frame_idx, "", FALSE,
                      add_to_scene_queries(labels, trail_length, show, video, frame_idx))
    /\ UNCHANGED <<labels, trail_length, show, text_box>>
    /\ UNCHANGED formVars

\* the player shows a frame of a video: a labeled one, or the one after the last
NextScene ==
    \E video \in Videos : \E frame_idx \in 0..Len(labels.frames) : AddToScene(video, frame_idx)

SpecScene == InitScene /\ [][NextScene]_vars

MaxIdx == 2
MaxStored == 3

\* labels is a dataset of two videos with at most MaxStored labeled frames,
\* no two of the same video and frame index, in any order; a frame has one
\* instance, at (frame_idx + 1, frame_idx + 1), or, in a sparse dataset,
\* none at the odd frame indexes
IsStore ==
    \E nf \in 0..MaxStored :
    \E keys \in [1..nf -> Videos \X (0..MaxIdx)] :
    \E sparse \in BOOLEAN :
        /\ \A i, j \in 1..nf : keys[i] = keys[j] => i = j
        /\ labels = [nodes |-> <<"head">>, tracks |-> <<"t1", "t2">>,
                     frames |-> [k \in 1..nf |->
                         [video |-> keys[k][1], frame_idx |-> keys[k][2],
                          instances |->
                              IF ~sparse \/ keys[k][2] % 2 = 0
                              THEN << [track |-> "t1",
                                       points |-> [n \in {"head"} |->
                                           [visible |-> TRUE, x |-> keys[k][2] + 1,
                                            y |-> keys[k][2] + 1]]] >>
                              ELSE <<>>]]]

\* the window of frames, on datasets in any order, with the overlay shown
InitWindow ==
    /\ FormIdle
    /\ IsStore
    /\ trail_length \in 0..MaxStored
    /\ show = TRUE
    /\ drawn = <<>>
    /\ call = NoCall
    /\ text_box = NoTextBox

GetFrameSelection(video, frame_idx) ==
    /\ call' = CallOf("get_frame_selection", video, frame_idx, "", FALSE,
                      get_frame_selection(labels.frames, trail_length, video, frame_idx))
    /\ UNCHANGED <<labels, trail_length, show, drawn, text_box>>
    /\ UNCHANGED formVars

GetTracksInFrame(video, frame_idx, include_trails) ==
    /\ call' = CallOf("get_tracks_in_frame", video, frame_idx, "", include_trails,
                      get_tracks_in_frame(labels.frames, trail_length, video, frame_idx,
                                          include_trails))
    /\ UNCHANGED <<labels, trail_length, show, drawn, text_box>>
    /\ UNCHANGED formVars

NextWindow ==
    \E video \in Videos : \E frame_idx \in 0..MaxIdx :
        \/ GetFrameSelection(video, frame_idx)
        \/ \E include_trails \in BOOLEAN : GetTracksInFrame(video, frame_idx, include_trails)
        \/ AddToScene(video, frame_idx)

SpecWindow == InitWindow /\ [][NextWindow]_vars

MaxTracks == 10

\* the name of the k-th track of the dataset: its number, the number
\* before it, or a word
TrackName(scheme, k) ==
    CASE scheme = "numbered" -> ToString(k)
      [] scheme = "shifted" -> ToString(k - 1)
      [] OTHER -> "mouse"

\* the track list on datasets of at most MaxTracks tracks, named after
\* one scheme but for one track
InitList ==
    /\ FormIdle
    /\ \E n \in 0..MaxTracks : \E scheme, other \in {"numbered", "shifted", "word"} :
       \E odd \in 0..n :
           labels = [nodes |-> <<"head">>, frames |-> <<>>,
                     tracks |-> [k \in 1..n |->
                         [id |-> k, name |-> TrackName(IF k = odd THEN other ELSE scheme, k)]]]
    /\ trail_length = DefaultTrailLength
    /\ show = FALSE
    /\ drawn = <<>>
    /\ call = NoCall
    /\ text_box = NoTextBox

ListAddToScene(video, frame_idx) ==
    /\ text_box' = list_add_to_scene(labels.tracks)
    /\ call' = CallOf("list_add_to_scene", video, frame_idx, "", FALSE, <<>>)
    /\ UNCHANGED <<labels, trail_length, show, drawn>>
    /\ UNCHANGED formVars

SetVisible(val, posx) ==
    /\ text_box' = SetVisibleOf(text_box, val, posx)
    /\ call' = CallOf("set_visible", "", 0, "", FALSE, <<val>>)
    /\ UNCHANGED <<labels, trail_length, show, drawn>>
    /\ UNCHANGED formVars

NextList ==
    \/ \E video \in Videos : \E frame_idx \in 0..MaxIdx : ListAddToScene(video, frame_idx)
    \/ \E val \in BOOLEAN : \E posx \in {0, 20} : SetVisible(val, posx)

SpecList == InitList /\ [][NextList]_vars

-----------------------------------------------------------------------------
(* Properties of the track trails *)

HasInstance(frame, track) ==
    \E j \in 1..Len(frame.instances) : frame.instances[j].track = track

\* the first instance of the track in a frame that has one
FirstOnTrack(frame, track) ==
    LET j == CHOOSE j \in 1..Len(frame.instances) :
                 /\ frame.instances[j].track = track
                 /\ \A i \in 1..(j - 1) : frame.instances[i].track # track
    IN frame.instances[j]

Seen(frame, track, node) ==
    /\ HasInstance(frame, track)
    /\ node \in DOMAIN FirstOnTrack(frame, track).points
    /\ FirstOnTrack(frame, track).points[node].visible

\* the trail of a landmark over the frames G, one sample a frame from the
\* first frame that shows the landmark on: the sample of the latest frame,
\* up to this one, that shows it
SampledTrail(G, track, node) ==
    LET V == {j \in 1..Len(G) : Seen(G[j], track, node)}
    IN IF V = {} THEN <<>>
       ELSE LET first == CHOOSE j \in V : \A i \in V : j <= i
            IN [k \in 1..(Len(G) - first + 1) |->
                   LET j == CHOOSE j \in V : /\ j <= first + k - 1
                                             /\ \A i \in V : i <= first + k - 1 => i <= j
                       pt == FirstOnTrack(G[j], track).points[node]
                   IN <<pt.x, pt.y>>]

\* C9 (as stated): get_track_trails gives every landmark one sample for every
\* frame of the window from the first frame that shows the landmark on, the
\* frames in which the track has no instance included: the (x, y) of the
\* landmark where it is visible, a copy of the last sample elsewhere
C9_CarryForward ==
    call.op = "get_track_trails" =>
        /\ Len(call.result) = Len(labels.nodes)
        /\ \A node_i \in 1..Len(labels.nodes) :
               call.result[node_i] = SampledTrail(labels.frames, call.track, labels.nodes[node_i])

\* C9 (amended): get_track_trails carries the last sample forward only over
\* the frames in which the track has an instance whose landmark is invisible
\* or missing; a frame in which the track has no instance adds no sample
C9_CarryForwardOnInstance ==
    call.op = "get_track_trails" =>
        /\ Len(call.result) = Len(labels.nodes)
        /\ \A node_i \in 1..Len(labels.nodes) :
               call.result[node_i] =
                   SampledTrail(SelectSeq(labels.frames, LAMBDA lf : HasInstance(lf, call.track)),
                                call.track, labels.nodes[node_i])

\* visible at (5,5), then hidden, then not in the instance, then visible at (9,9)
C9_Witness ==
    /\ call.op = "get_track_trails"
    /\ call.track = "t1"
    /\ labels.nodes = <<"head">>
    /\ Len(labels.frames) = 4
    /\ \A k \in 1..4 : Len(labels.frames[k].instances) = 1
                       /\ labels.frames[k].instances[1].track = "t1"
    /\ labels.frames[1].instances[1].points = [n \in {"head"} |-> Visible55]
    /\ labels.frames[2].instances[1].points = [n \in {"head"} |-> Hidden11]
    /\ labels.frames[3].instances[1].points = [n \in {} |-> Hidden11]
    /\ labels.frames[4].instances[1].points = [n \in {"head"} |-> Visible99]
    /\ call.result = << << <<5, 5>>, <<5, 5>>, <<5, 5>>, <<9, 9>> >> >>

\* the (x, y) tuples of the points of a polygon
PointsOf(polygon) == [i \in 1..Len(polygon) |-> <<polygon[i].x, polygon[i].y>>]

\* the trail of the i-th landmark of the t-th track of the last add_to_scene
TrailDrawn(t, i) ==
    LET frame_selection == get_frame_selection(labels.frames, trail_length, call.video, call.frame_idx)
        tracks_in_frame == get_tracks_in_frame(labels.frames, trail_length, call.video,
                                               call.frame_idx, TRUE)
    IN get_track_trails(labels.nodes, frame_selection, tracks_in_frame[t])[i]

TracksDrawn ==
    Len(get_tracks_in_frame(labels.frames, trail_length, call.video, call.frame_idx, TRUE))

\* the position in the scene of the first of the two polygons of a trail
FirstPolygon(t, i) == 2 * ((t - 1) * Len(labels.nodes) + (i - 1)) + 1

\* C10 (as stated): add_to_scene splits every trail at floor(len / 2) and adds
\* the later half to the scene first, with alpha 1.0, and the earlier half
\* second, with alpha 0.5
C10_LaterHalfFirst ==
    (call.op = "add_to_scene" /\ show) =>
        /\ Len(drawn) = 2 * TracksDrawn * Len(labels.nodes)
        /\ \A t \in 1..TracksDrawn : \A i \in 1..Len(labels.nodes) :
               LET trail == TrailDrawn(t, i)
                   half == Len(trail) \div 2
                   k == FirstPolygon(t, i)
               IN /\ drawn[k].alpha = AlphaFull
                  /\ PointsOf(drawn[k].polygon) = SubSeq(trail, half + 1, Len(trail))
                  /\ drawn[k + 1].alpha = AlphaHalf
                  /\ PointsOf(drawn[k + 1].polygon) = SubSeq(trail, 1, half)

\* C10 (amended): add_to_scene splits every trail at floor(len / 2) and adds
\* the earlier half to the scene first, with alpha 1.0, and the later half
\* second, with alpha 0.5
C10_EarlierHalfFirst ==
    (call.op = "add_to_scene" /\ show) =>
        /\ Len(drawn) = 2 * TracksDrawn * Len(labels.nodes)
        /\ \A t \in 1..TracksDrawn : \A i \in 1..Len(labels.nodes) :
               LET trail == TrailDrawn(t, i)
                   half == Len(trail) \div 2
                   k == FirstPolygon(t, i)
               IN /\ drawn[k].alpha = AlphaFull
                  /\ PointsOf(drawn[k].polygon) = SubSeq(trail, 1, half)
                  /\ drawn[k + 1].alpha = AlphaHalf
                  /\ PointsOf(drawn[k + 1].polygon) = SubSeq(trail, half + 1, Len(trail))

\* a trail of four samples whose halves differ is drawn
C10_Witness ==
    /\ call.op = "add_to_scene"
    /\ show
    /\ labels.nodes = <<"head">>
    /\ Len(drawn) >= 2
    /\ PointsOf(drawn[1].polygon) = << <<5, 5>>, <<5, 5>> >>
    /\ PointsOf(drawn[2].polygon) = << <<9, 9>>, <<9, 9>> >>
    /\ drawn[1].alpha = AlphaFull
    /\ drawn[2].alpha = AlphaHalf

\* the labeled frames of the video of the last call up to its frame index
Matches == {lf \in Range(labels.frames) : lf.video = call.video /\ lf.frame_idx \in 0..call.frame_idx}

Least(a, b) == IF a <= b THEN a ELSE b

\* C11: for a trail_length N >= 1, get_frame_selection returns the last N,
\* or all if fewer, of the labeled frames of the video with a frame index in
\* [0, f], in ascending order of frame index; the trails that add_to_scene
\* draws from this window have at most N samples
C11_FrameWindow ==
    trail_length >= 1 =>
        /\ call.op = "get_frame_selection" =>
               /\ Range(call.result) \subseteq Matches
               /\ Len(call.result) = Least(trail_length, Cardinality(Matches))
               /\ \A i, j \in 1..Len(call.result) :
                      i < j => call.result[i].frame_idx < call.result[j].frame_idx
               /\ \A lf \in Matches \ Range(call.result) : \A i \in 1..Len(call.result) :
                      lf.frame_idx < call.result[i].frame_idx
        /\ call.op = "add_to_scene" =>
               \A t \in 1..TracksDrawn : \A i \in 1..Len(labels.nodes) :
                   /\ Len(TrailDrawn(t, i)) <= trail_length
                   /\ Len(drawn[FirstPolygon(t, i)].polygon)
                      + Len(drawn[FirstPolygon(t, i) + 1].polygon) <= trail_length

\* of three frames of the video, stored out of order, the last two are kept
C11_Witness ==
    /\ call.op = "get_frame_selection"
    /\ trail_length = 2
    /\ call.video = "v1"
    /\ Len(labels.frames) = 3
    /\ labels.frames[1].frame_idx > labels.frames[2].frame_idx
    /\ \A k \in 1..3 : labels.frames[k].video = "v1"
    /\ Cardinality(Matches) = 3
    /\ Len(call.result) = 2
    /\ call.result[1].frame_idx = 1
    /\ call.result[2].frame_idx = 2

\* C12: with a trail_length of 0 the window of get_frame_selection is empty,
\* add_to_scene draws nothing and get_tracks_in_frame with include_trails
\* returns no track
C12_NoWindow ==
    trail_length = 0 =>
        /\ call.op = "get_frame_selection" => call.result = <<>>
        /\ call.op = "add_to_scene" => drawn = <<>>
        /\ (call.op = "get_tracks_in_frame" /\ call.include_trails) => call.result = <<>>

\* C13: the track list shows min(9, number of tracks) entries, the first
\* tracks of the dataset in their order, whatever the frame, and never more
\* than 9
C13_ListCap ==
    (~text_box.none) =>
        /\ Len(text_box.html) <= 9
        /\ Len(text_box.html) = Least(9, Len(labels.tracks))
        /\ \A i \in 1..Len(text_box.html) :
               /\ text_box.html[i].color = labels.tracks[i].id
               /\ text_box.html[i].text \in
                      {"<b>" \o labels.tracks[i].name \o "</b>",
                       "<b>" \o labels.tracks[i].name \o "</b> (" \o ToString(i) \o ")"}

\* a dataset of more than 9 tracks has been listed
C13_Witness ==
    /\ call.op = "list_add_to_scene"
    /\ Len(labels.tracks) = 10
    /\ Len(text_box.html) = 9
    /\ text_box.html[9].color = 9

\* C14: with show off add_to_scene does nothing: it adds no item to the
\* scene, queries neither the dataset nor the color manager and changes
\* nothing of the overlay
C14_HiddenNoOp ==
    [][(call'.op = "add_to_scene" /\ ~show) =>
           /\ drawn' = <<>>
           /\ call'.result = <<>>
           /\ UNCHANGED <<labels, trail_length, show, text_box>>]_vars

\* the hidden overlay was asked for a frame whose window has tracks
C14_Witness ==
    /\ call.op = "add_to_scene"
    /\ ~show
    /\ trail_length = 2
    /\ get_tracks_in_frame(labels.frames, trail_length, call.video, call.frame_idx, TRUE) # <<>>
    /\ drawn = <<>>

\* C15: set_field_options(name, options) leaves alone every layout, the
\* form's or a stack page's, that has no control called name: no control of
\* that layout changes its list of options or its current selection
C15_AbsentNameNoOp ==
    [][last'.op = "set_field_options" =>
           \A p \in DOMAIN fields :
               last'.name \notin DOMAIN fields[p] =>
                   \A nm \in DOMAIN fields[p] :
                       /\ fields'[p][nm].items = fields[p][nm].items
                       /\ fields'[p][nm].idx = fields[p][nm].idx]_vars

\* C16: add_to_scene draws the trails of every track of the window once: two
\* polygons for each landmark of each distinct track, however many frames
\* and instances of the window the track is in (for a trail_length >= 1)
C16_TracksAsSet ==
    (call.op = "add_to_scene" /\ show /\ trail_length >= 1) =>
        LET lfs == get_frame_selection(labels.frames, trail_length, call.video, call.frame_idx)
            present == {t \in Tracks : \E i \in 1..Len(lfs) : HasInstance(lfs[i], t)}
        IN /\ Len(drawn) = 2 * Cardinality(present) * Len(labels.nodes)
           /\ \A t \in present :
                  Cardinality({k \in 1..Len(drawn) : drawn[k].color = t}) = 2 * Len(labels.nodes)

====
